---- MODULE Spec2Model ----
(***************************************************************************)
(* A model of the Titanic preprocessing / feature / training pipeline:     *)
(*   src/src/data_loader.py  (impute_missing_values, preprocess_data,      *)
(*                            split_features_target)                       *)
(*   src/src/features.py     (the five create_* steps, engineer_all)       *)
(*   src/src/models.py       (prepare_data, train_all_models)              *)
(*                                                                         *)
(* A table (pandas DataFrame) is a record                                  *)
(*   [cols |-> sequence of column names, rows |-> sequence of rows]        *)
(* and a row is a function from the column names to cells.  A cell is a    *)
(* record with a tag: "na" (NaN / None), "num" (a number), "str" (a        *)
(* category string such as "male" or "S") or "text" (free text, kept as    *)
(* its sequence of characters so that the title regular expression can be  *)
(* run on it).  Age and Fare are stored in quarter units (Years(12) = 48),  *)
(* so that a value strictly between 12 and 13 and the mean of two input    *)
(* values are both representable; counts and codes are plain integers.     *)
(***************************************************************************)
EXTENDS Integers, Sequences, FiniteSets, TLC

VARIABLES
    df,        \* the table the pipeline currently holds
    prev,      \* the table that was passed to the most recent call
    ops,       \* the calls made so far, oldest first
    err,       \* "none", or the exception the most recent call raised
    pc,        \* train_all_models: position in the function
    X,         \* prepare_data: the assembled feature matrix and its split
    attempted, \* train_all_models: models whose fit was called
    models,    \* train_all_models: the dict of trained models (its keys)
    saved,     \* models pickled to disk by save_model
    evaluated  \* models scored by evaluate_model

vars == <<df, prev, ops, err, pc, X, attempted, models, saved, evaluated>>

harness == <<pc, X, attempted, models, saved, evaluated>>

----------------------------------------------------------------------------
(* Bounds of the model *)

\* the largest number of rows of a table given to the imputation and to the
\* training harness
MaxRows == 3

\* the largest number of rows of a table given to the feature steps
MaxFeatureRows == 2

\* the largest number of pipeline calls made on one table
MaxCalls == 2

----------------------------------------------------------------------------
(* Cells *)

NA == [tag |-> "na", num |-> 0, str |-> "", txt |-> <<>>]

Num(n) == [tag |-> "num", num |-> n, str |-> "", txt |-> <<>>]

Str(s) == [tag |-> "str", num |-> 0, str |-> s, txt |-> <<>>]

Text(s) == [tag |-> "text", num |-> 0, str |-> "", txt |-> s]

isnull(c) == c.tag = "na"

\* Age and Fare are stored in quarter units
Years(n) == 4 * n

----------------------------------------------------------------------------
(* Tables *)

Range(s) == {s[i] : i \in DOMAIN s}

NRows(t) == Len(t.rows)

HasCol(t, c) == c \in Range(t.cols)

\* df[c]: the column as a function of the row index
Column(t, c) == [i \in 1..NRows(t) |-> t.rows[i][c]]

\* df[c] = f: an existing column is overwritten in place, a new one is
\* appended after the last column
SetCol(t, c, f) ==
    [cols |-> IF HasCol(t, c) THEN t.cols ELSE Append(t.cols, c),
     rows |-> [i \in 1..NRows(t) |->
                 [k \in Range(t.cols) \cup {c} |->
                     IF k = c THEN f[i] ELSE t.rows[i][k]]]]

RECURSIVE SelectSeqNotIn(_, _)
SelectSeqNotIn(s, S) ==
    IF s = <<>> THEN <<>>
    ELSE IF Head(s) \in S THEN SelectSeqNotIn(Tail(s), S)
         ELSE <<Head(s)>> \o SelectSeqNotIn(Tail(s), S)

\* df.drop(columns=[...]) of columns that may or may not exist
DropCols(t, S) ==
    [cols |-> SelectSeqNotIn(t.cols, S),
     rows |-> [i \in 1..NRows(t) |->
                 [k \in Range(t.cols) \ S |-> t.rows[i][k]]]]

\* Series.isnull().any()
AnyNull(t, c) == \E i \in 1..NRows(t) : isnull(t.rows[i][c])

AllNull(t, c) == \A i \in 1..NRows(t) : isnull(t.rows[i][c])

\* Series.fillna(v): a missing v (NaN) fills nothing
fillna(f, v) == [i \in DOMAIN f |-> IF isnull(f[i]) THEN v ELSE f[i]]

\* map with a value that is no key of the dict kept as it is
map_keep(f, d) ==
    [i \in DOMAIN f |->
        IF f[i].tag = "str" /\ f[i].str \in DOMAIN d THEN Num(d[f[i].str])
        ELSE f[i]]

\* Series.map(dict): a value that is no key of the dict becomes NaN
map(f, d) ==
    [i \in DOMAIN f |->
        IF f[i].tag = "str" /\ f[i].str \in DOMAIN d THEN Num(d[f[i].str])
        ELSE NA]

----------------------------------------------------------------------------
(* Column statistics *)

\* the sort key of a cell: a number by its value, a category string by its
\* alphabetical rank
StrRank == ("C" :> 1) @@ ("Q" :> 2) @@ ("S" :> 3) @@ ("X" :> 4)
           @@ ("female" :> 5) @@ ("male" :> 6)

Key(c) == IF c.tag = "num" THEN c.num ELSE StrRank[c.str]

\* the indices of the non-missing cells of a column
NotNull(f) == {i \in DOMAIN f : ~isnull(f[i])}

\* the number of cells of the column below cell i in sorted order (ties are
\* broken by position): the cell's index in the sorted non-missing values
RankIn(f, i) ==
    Cardinality({j \in NotNull(f) :
        \/ Key(f[j]) < Key(f[i])
        \/ Key(f[j]) = Key(f[i]) /\ j < i})

\* the k-th (from 0) smallest non-missing value of the column
Nth(f, k) == f[CHOOSE i \in NotNull(f) : RankIn(f, i) = k]

\* Series.median(): NaN for a column without a value; the middle value, or
\* the mean of the two middle values.  Input values are even numbers of
\* quarter units, so the mean of two of them is exact.
median(f) ==
    LET n == Cardinality(NotNull(f)) IN
    IF n = 0 THEN NA
    ELSE IF n % 2 = 1 THEN Nth(f, n \div 2)
    ELSE Num((Nth(f, n \div 2 - 1).num + Nth(f, n \div 2).num) \div 2)

Count(f, v) == Cardinality({i \in NotNull(f) : f[i] = v})

\* Series.mode(): the most frequent non-missing values, sorted; empty for a
\* column without a value
mode(f) ==
    {f[i] : i \in {j \in NotNull(f) :
        \A k \in NotNull(f) : Count(f, f[k]) <= Count(f, f[j])}}

\* Series.mode()[0]: the smallest of the modes
mode0(f) == CHOOSE v \in mode(f) : \A w \in mode(f) : Key(v) <= Key(w)

----------------------------------------------------------------------------
(* data_loader.py *)

\* the lookup table with its two codes exchanged
sex_mapping_swapped == ("male" :> 1) @@ ("female" :> 0)

sex_mapping == ("male" :> 0) @@ ("female" :> 1)

embarked_mapping == ("S" :> 0) @@ ("C" :> 1) @@ ("Q" :> 2)

\* The result of a call: the table it returns, or the exception it raises
Ok(t) == [err |-> "none", df |-> t]

Raise(e, t) == [err |-> e, df |-> t]

\* preprocess_data(df, use_mice_imputation=False), lines 118-133
SimpleImputeAge(t) == SetCol(t, "Age", fillna(Column(t, "Age"), median(Column(t, "Age"))))

SimpleImputeEmbarked(t) ==
    SetCol(t, "Embarked", fillna(Column(t, "Embarked"), mode0(Column(t, "Embarked"))))

SimpleImputeFare(t) == SetCol(t, "Fare", fillna(Column(t, "Fare"), median(Column(t, "Fare"))))

EncodeSex(t) == SetCol(t, "Sex", map(Column(t, "Sex"), sex_mapping))

EncodeEmbarked(t) == SetCol(t, "Embarked", map(Column(t, "Embarked"), embarked_mapping))

preprocess_simple(t) ==
    IF ~HasCol(t, "Age") THEN Raise("KeyError", t)
    ELSE IF ~HasCol(t, "Embarked") THEN Raise("KeyError", t)
    ELSE IF mode(Column(t, "Embarked")) = {} THEN Raise("KeyError", t)
    ELSE IF ~HasCol(t, "Fare") THEN Raise("KeyError", t)
    ELSE IF ~HasCol(t, "Sex") THEN Raise("KeyError", t)
    ELSE Ok(EncodeEmbarked(EncodeSex(DropCols(
            SimpleImputeFare(SimpleImputeEmbarked(SimpleImputeAge(t))),
            {"Cabin"}))))

\* The values IterativeImputer may put in a missing cell: the regression is
\* an external library, so the estimate is any of these
ImputedValues == {Years(1), Years(30)}

\* impute_missing_values, lines 43-48: the table the imputer works on
df_impute_encoded(t) ==
    EncodeEmbarked(EncodeSex(DropCols(t, {"Cabin", "Ticket", "PassengerId"})))

\* line 55, of the encoded table d without its Name column
missing_cols(d) == {c \in Range(d.cols) : AnyNull(d, c)}

\* lines 64-67
impute_cols(d, include_target) ==
    IF include_target /\ HasCol(d, "Survived") THEN d.cols
    ELSE SelectSeqNotIn(d.cols, {"Survived"})

\* fit_transform takes numbers only, and drops a column that is missing in
\* every row, so that DataFrame(..., columns=impute_cols) fails on the shape
imputer_fails(d, cols) ==
    \/ \E c \in Range(cols) : \E i \in 1..NRows(d) :
          d.rows[i][c].tag \in {"str", "text"}
    \/ \E c \in Range(cols) : AllNull(d, c)

\* the cells the imputer estimates: the missing cells of the imputed
\* columns; none when the call fails before it returns an estimate
MissingCells(t, include_target) ==
    IF ~HasCol(t, "Sex") \/ ~HasCol(t, "Embarked") THEN {}
    ELSE LET d == DropCols(df_impute_encoded(t), {"Name"})
             cols == impute_cols(d, include_target)
         IN IF imputer_fails(d, cols) THEN {}
            ELSE {ic \in (1..NRows(d)) \X Range(cols) :
                     isnull(d.rows[ic[1]][ic[2]])}

\* the imputer's estimates, one for each missing cell
FillChoices(t, include_target) ==
    [MissingCells(t, include_target) -> ImputedValues]

\* lines 77-81: fit_transform returns the imputed columns, observed values
\* kept, and DataFrame(...) names them
fit_transform(d, cols, fill) ==
    [cols |-> cols,
     rows |-> [i \in 1..NRows(d) |->
                 [k \in Range(cols) |->
                     IF isnull(d.rows[i][k]) THEN Num(fill[<<i, k>>])
                     ELSE d.rows[i][k]]]]

\* lines 84-85: Survived is put back when it was left out
PutBackSurvived(d, out, include_target) ==
    IF ~include_target /\ HasCol(d, "Survived")
    THEN SetCol(out, "Survived", Column(d, "Survived"))
    ELSE out

\* lines 88-89 and 94-95: Name is put back, after the other columns
PutBackName(enc, out) ==
    IF HasCol(enc, "Name") THEN SetCol(out, "Name", Column(enc, "Name")) ELSE out

\* impute_missing_values(df, include_target), lines 39-97
impute_missing_values(t, include_target, fill) ==
    IF ~HasCol(t, "Sex") THEN Raise("KeyError", t)
    ELSE IF ~HasCol(t, "Embarked") THEN Raise("KeyError", t)
    ELSE LET enc == df_impute_encoded(t)
             d == DropCols(enc, {"Name"})
             cols == impute_cols(d, include_target)
         IN IF missing_cols(d) = {} THEN Ok(PutBackName(enc, d))
            ELSE IF imputer_fails(d, cols) THEN Raise("ValueError", t)
            ELSE Ok(PutBackName(enc, PutBackSurvived(d,
                        fit_transform(d, cols, fill), include_target)))

\* preprocess_data(df, use_mice_imputation), lines 112-133
preprocess_data(t, use_mice_imputation, fill) ==
    IF use_mice_imputation THEN impute_missing_values(t, TRUE, fill)
    ELSE preprocess_simple(t)

\* split_features_target(df, target_column), lines 148-153: df[[...]] and
\* df[target] raise KeyError on an absent column
feature_columns ==
    <<"Pclass", "Sex", "Age", "SibSp", "Parch", "Fare", "Embarked">>

\* df[cols]: the table of these columns, in this order
Select(t, cols) ==
    [cols |-> cols,
     rows |-> [i \in 1..NRows(t) |-> [k \in Range(cols) |-> t.rows[i][k]]]]

\* split_features_target that selects the feature columns that exist
split_features_target_lenient(t, target_column) ==
    IF ~HasCol(t, target_column) THEN Raise("KeyError", t)
    ELSE Ok(Select(t, SelectSeqNotIn(feature_columns,
                Range(feature_columns) \ Range(t.cols))))

split_features_target(t, target_column) ==
    IF \E c \in Range(feature_columns) : ~HasCol(t, c) THEN Raise("KeyError", t)
    ELSE IF ~HasCol(t, target_column) THEN Raise("KeyError", t)
    ELSE Ok(Select(t, feature_columns))

----------------------------------------------------------------------------
(* features.py *)

\* Series + Series: NaN where either is missing
Plus(a, b) == IF isnull(a) \/ isnull(b) THEN NA ELSE Num(a.num + b.num)

\* the caller still holds its own table when the call raised
From(t, r) == IF r.err # "none" THEN Raise(r.err, t) ELSE r

\* create_family_size that keeps a FamilySize column the table came with
create_family_size_keep(t) ==
    IF ~HasCol(t, "SibSp") \/ ~HasCol(t, "Parch") THEN Raise("KeyError", t)
    ELSE IF HasCol(t, "FamilySize") THEN Ok(t)
    ELSE Ok(SetCol(t, "FamilySize",
                [i \in 1..NRows(t) |->
                    Plus(Plus(t.rows[i]["SibSp"], t.rows[i]["Parch"]), Num(1))]))

\* create_family_size, lines 18-20
create_family_size(t) ==
    IF ~HasCol(t, "SibSp") \/ ~HasCol(t, "Parch") THEN Raise("KeyError", t)
    ELSE Ok(SetCol(t, "FamilySize",
                [i \in 1..NRows(t) |->
                    Plus(Plus(t.rows[i]["SibSp"], t.rows[i]["Parch"]), Num(1))]))

\* line 36: (df['FamilySize'] == 1).astype(int)
IsAloneOf(t) ==
    Ok(SetCol(t, "IsAlone",
          [i \in 1..NRows(t) |->
              Num(IF t.rows[i]["FamilySize"] = Num(1) THEN 1 ELSE 0)]))

\* create_is_alone, lines 33-37
create_is_alone(t) ==
    IF ~HasCol(t, "FamilySize")
    THEN LET r == create_family_size(t)
         IN From(t, IF r.err # "none" THEN r ELSE IsAloneOf(r.df))
    ELSE IsAloneOf(t)

\* [A-Za-z]
Letters ==
    {"A", "B", "C", "D", "E", "F", "G", "H", "I", "J", "K", "L", "M",
     "N", "O", "P", "Q", "R", "S", "T", "U", "V", "W", "X", "Y", "Z",
     "a", "b", "c", "d", "e", "f", "g", "h", "i", "j", "k", "l", "m",
     "n", "o", "p", "q", "r", "s", "t", "u", "v", "w", "x", "y", "z"}

\* the length of the longest run of letters of s that starts at index i
RECURSIVE LetterRun(_, _)
LetterRun(s, i) ==
    IF i > Len(s) \/ s[i] \notin Letters THEN 0 ELSE 1 + LetterRun(s, i + 1)

\* ' ([A-Za-z]+)\.' matches at i: a space, one or more letters (greedy: the
\* whole run, because a shorter run is followed by a letter), a period
MatchAt(s, i) ==
    /\ s[i] = " "
    /\ LetterRun(s, i + 1) >= 1
    /\ i + LetterRun(s, i + 1) + 1 <= Len(s)
    /\ s[i + LetterRun(s, i + 1) + 1] = "."

\* Series.str.extract(' ([A-Za-z]+)\.', expand=False), line 56: the group of
\* the leftmost match, NaN without a match or for a missing name
str_extract(c) ==
    IF c.tag # "text" \/ ~\E i \in 1..Len(c.txt) : MatchAt(c.txt, i) THEN NA
    ELSE LET i == CHOOSE k \in 1..Len(c.txt) :
                      /\ MatchAt(c.txt, k)
                      /\ \A j \in 1..(k - 1) : ~MatchAt(c.txt, j)
         IN Text(SubSeq(c.txt, i + 1, i + LetterRun(c.txt, i + 1)))

\* the titles of the lookup table, as their characters
Mr == <<"M", "r">>

Miss == <<"M", "i", "s", "s">>

Mrs == <<"M", "r", "s">>

Master == <<"M", "a", "s", "t", "e", "r">>

Dr == <<"D", "r">>

Rev == <<"R", "e", "v">>

Col == <<"C", "o", "l">>

Major == <<"M", "a", "j", "o", "r">>

Mlle == <<"M", "l", "l", "e">>

Countess == <<"C", "o", "u", "n", "t", "e", "s", "s">>

Ms == <<"M", "s">>

Lady == <<"L", "a", "d", "y">>

Jonkheer == <<"J", "o", "n", "k", "h", "e", "e", "r">>

Don == <<"D", "o", "n">>

Dona == <<"D", "o", "n", "a">>

Mme == <<"M", "m", "e">>

Capt == <<"C", "a", "p", "t">>

Sir == <<"S", "i", "r">>

\* lines 59-64
title_mapping ==
    (Mr :> 0) @@ (Miss :> 1) @@ (Mrs :> 2)
    @@ (Master :> 3) @@ (Dr :> 4) @@ (Rev :> 4)
    @@ (Col :> 4) @@ (Major :> 4) @@ (Mlle :> 1)
    @@ (Countess :> 2) @@ (Ms :> 1) @@ (Lady :> 2)
    @@ (Jonkheer :> 4) @@ (Don :> 4) @@ (Dona :> 2)
    @@ (Mme :> 2) @@ (Capt :> 4) @@ (Sir :> 4)

\* line 66: Series.map(title_mapping)
map_title(c) ==
    IF c.tag = "text" /\ c.txt \in DOMAIN title_mapping
    THEN Num(title_mapping[c.txt]) ELSE NA

\* the fill lost: the column keeps its missing values
fill_title_skipped(f) == f

\* line 67: df['Title'].fillna(0, inplace=True), which fills the column of
\* df (pandas without copy-on-write, which the code is written for)
fill_title(f) == fillna(f, Num(0))

\* create_title_feature, lines 50-69
create_title_feature(t) ==
    IF ~HasCol(t, "Name") THEN Ok(t)
    ELSE Ok(SetCol(t, "Title",
                fill_title([i \in 1..NRows(t) |->
                    map_title(str_extract(t.rows[i]["Name"]))])))

\* four times the k/4 quantile of the non-missing values of a column, by
\* linear interpolation between the two nearest sorted values
quantile4(f, k) ==
    LET n == Cardinality(NotNull(f))
        pos == (n - 1) * k
        lo == pos \div 4
        fr == pos % 4
        a == Nth(f, lo).num
        b == Nth(f, IF fr = 0 THEN lo ELSE lo + 1).num
    IN 4 * a + (b - a) * fr

\* pd.qcut(x, 4, labels=False, duplicates='drop'), line 88: the quartile
\* edges without their duplicates; x falls in bin ids - 1 where ids is the
\* number of edges below x, the lowest edge included in the first bin; no
\* bin (NaN) for a missing x, and for every x when a single edge is left
qcut(f) ==
    LET edges == IF NotNull(f) = {} THEN {}
                 ELSE {quantile4(f, k) : k \in 0..4}
        ids(x) == IF \A e \in edges : x <= e THEN 1
                  ELSE Cardinality({e \in edges : e < x})
    IN [i \in DOMAIN f |->
          IF isnull(f[i]) \/ ids(4 * f[i].num) = Cardinality(edges) THEN NA
          ELSE Num(ids(4 * f[i].num) - 1)]

\* create_fare_bins, lines 82-90
create_fare_bins(t) ==
    IF ~HasCol(t, "Fare") THEN Ok(t)
    ELSE Ok(SetCol(t, "FareBin", qcut(Column(t, "Fare"))))

\* the edges with the first boundary at 13
age_bins_13 == <<Years(0), Years(13), Years(20), Years(40), Years(60), Years(100)>>

\* line 109: bins=[0, 12, 20, 40, 60, 100], labels=[0, 1, 2, 3, 4]
age_bins == <<Years(0), Years(12), Years(20), Years(40), Years(60), Years(100)>>

\* pd.cut with right=False: the bins closed on the left
cut_left_closed(f, bins) ==
    LET ids(x) == Cardinality({j \in 1..Len(bins) : bins[j] <= x})
    IN [i \in DOMAIN f |->
          IF isnull(f[i]) \/ ids(f[i].num) = 0 \/ ids(f[i].num) = Len(bins)
          THEN NA
          ELSE Num(ids(f[i].num) - 1)]

\* pd.cut(x, bins, labels) with its defaults right=True and
\* include_lowest=False: x falls in bin ids - 1 where ids is the number of
\* edges strictly below x; no bin (NaN) for a missing x, for an x at or
\* below the first edge and for an x above the last
cut(f, bins) ==
    LET ids(x) == Cardinality({j \in 1..Len(bins) : bins[j] < x})
    IN [i \in DOMAIN f |->
          IF isnull(f[i]) \/ ids(f[i].num) = 0 \/ ids(f[i].num) = Len(bins)
          THEN NA
          ELSE Num(ids(f[i].num) - 1)]

\* create_age_bins, lines 103-112
create_age_bins(t) ==
    IF ~HasCol(t, "Age") THEN Ok(t)
    ELSE Ok(SetCol(t, "AgeBin", cut(Column(t, "Age"), age_bins)))

\* engineer_all_features, lines 125-131: each step is given the table the
\* step before it returned; an exception of a step ends the call
engineer_all_features(t) ==
    LET r1 == create_family_size(t)
        r2 == IF r1.err # "none" THEN r1 ELSE create_is_alone(r1.df)
        r3 == IF r2.err # "none" THEN r2 ELSE create_title_feature(r2.df)
        r4 == IF r3.err # "none" THEN r3 ELSE create_fare_bins(r3.df)
        r5 == IF r4.err # "none" THEN r4 ELSE create_age_bins(r4.df)
    IN From(t, r5)

----------------------------------------------------------------------------
(* models.py *)

\* prepare_data, lines 35-37
harness_feature_columns ==
    <<"Pclass", "Sex", "Age", "SibSp", "Parch", "Fare", "Embarked",
      "FamilySize", "IsAlone", "Title", "FareBin", "AgeBin">>

RECURSIVE SelectSeqIn(_, _)
SelectSeqIn(s, S) ==
    IF s = <<>> THEN <<>>
    ELSE IF Head(s) \in S THEN <<Head(s)>> \o SelectSeqIn(Tail(s), S)
         ELSE SelectSeqIn(Tail(s), S)

\* line 40: [col for col in feature_columns if col in df.columns]
available_features(t) == SelectSeqIn(harness_feature_columns, Range(t.cols))

\* train_test_split(X, y, test_size=0.2, stratify=y), lines 45-47: the
\* number of test rows is ceil(0.2 n); the split fails when no training row
\* is left, when a class of y has a single member, and when either part has
\* fewer rows than y has classes
n_test(n) == (n + 4) \div 5

Classes(t) == {t.rows[i]["Survived"] : i \in 1..NRows(t)}

ClassCount(t, c) == Cardinality({i \in 1..NRows(t) : t.rows[i]["Survived"] = c})

split_fails(t) ==
    \/ NRows(t) - n_test(NRows(t)) = 0
    \/ \E c \in Classes(t) : ClassCount(t, c) < 2
    \/ NRows(t) - n_test(NRows(t)) < Cardinality(Classes(t))
    \/ n_test(NRows(t)) < Cardinality(Classes(t))

\* lines 40-47 of prepare_data, on the engineered table: the feature matrix
\* of the columns that exist and its split; test holds the rows the seeded
\* shuffle drew
assemble(t, test) ==
    IF ~HasCol(t, "Survived") THEN Raise("KeyError", t)
    ELSE IF split_fails(t) THEN Raise("ValueError", t)
    ELSE [err |-> "none", df |-> t,
          X |-> [cols |-> available_features(t),
                 train |-> (1..NRows(t)) \ test,
                 test |-> test]]

\* prepare_data after load_data, lines 31-49
prepare_data(t, fill, test) ==
    LET p == preprocess_data(t, TRUE, fill)
        r == IF p.err # "none" THEN p ELSE engineer_all_features(p.df)
    IN IF r.err # "none" THEN Raise(r.err, t) ELSE assemble(r.df, test)

\* the draws of the shuffle: the sets of ceil(0.2 n) rows
TestChoices(t) == {S \in SUBSET (1..NRows(t)) : Cardinality(S) = n_test(NRows(t))}

NoX == [cols |-> <<>>, train |-> {}, test |-> {}]

----------------------------------------------------------------------------
(* Input tables *)

\* the columns of the dataset file, in its order
RawCols ==
    <<"PassengerId", "Survived", "Pclass", "Name", "Sex", "Age", "SibSp",
      "Parch", "Ticket", "Fare", "Cabin", "Embarked">>

\* a name with the title in its usual place: "Doe, <title>. J"
NameWith(title) == <<"D", "o", "e", ",", " ">> \o title \o <<".", " ", "J">>

\* two passengers of the dataset: a man travelling with one relative, and
\* a woman who embarked at Cherbourg.  FamilySize is read only by the tables
\* that carry the column already (a stale value: 1 for both).
Braund ==
    [PassengerId |-> Num(1), Survived |-> Num(0), Pclass |-> Num(3),
     Name |-> Text(NameWith(Mr)), Sex |-> Str("male"), Age |-> Num(Years(22)),
     SibSp |-> Num(1), Parch |-> Num(0), Ticket |-> Str("A/5 21171"),
     Fare |-> Num(30), Cabin |-> Str("C85"), Embarked |-> Str("S"),
     FamilySize |-> Num(1)]

Cumings ==
    [Braund EXCEPT !.PassengerId = Num(2), !.Survived = Num(1),
                   !.Pclass = Num(1), !.Name = Text(NameWith(Mrs)),
                   !.Sex = Str("female"), !.Age = Num(Years(38)),
                   !.Fare = Num(284), !.Embarked = Str("C")]

\* the tables of up to n rows drawn from a set of rows, with the columns cols
Tables(rowset, cols, n) ==
    {[cols |-> cols, rows |-> rs] :
        rs \in UNION {[1..m -> {[k \in Range(cols) |-> r[k]] : r \in rowset}] :
                        m \in 0..n}}

\* the rows the imputation is run on: an age, a fare or a port missing, a
\* port outside the lookup table
ImputeRows ==
    {Braund, Cumings,
     [Braund EXCEPT !.Age = NA],
     [Braund EXCEPT !.Fare = NA],
     [Braund EXCEPT !.Embarked = NA],
     [Braund EXCEPT !.Embarked = Str("X")]}

ImputeTables == Tables(ImputeRows, RawCols, MaxRows)

\* the names the title step is run on: every title of the lookup table in
\* its usual place; a title that is not in the table; a title in lower
\* case; a name without a period; a title at the start of the name (no space
\* before it); a word before the title ("the Countess."); two titles, the
\* first not in the table; a missing name
TitleNames ==
    {Text(NameWith(t)) : t \in DOMAIN title_mapping}
    \cup {Text(NameWith(<<"M", "x">>)),
          Text(NameWith(<<"m", "r">>)),
          Text(<<"C", "h", "e", "r">>),
          Text(<<"M", "r", ".", " ", "D", "o", "e">>),
          Text(<<"R", ",", " ", "t", "h", "e", " ">> \o Countess \o <<".", " ", "o", "f">>),
          Text(<<"D", ",", " ", "E", "s", "q", ".", " ">> \o Mr \o <<".", " ", "J">>),
          NA}

\* a partial pipeline: the columns the title and the family steps read
TitleCols == <<"PassengerId", "Name", "SibSp", "Parch">>

TitleTables ==
    Tables({[Braund EXCEPT !.Name = n] : n \in TitleNames}, TitleCols, MaxFeatureRows)

\* the ages the binning is run on: each edge of the bins, a value just
\* above it, both ends of the range and a missing age
AgeSamples ==
    {NA} \cup {Num(Years(y)) : y \in {0, 12, 20, 40, 60, 100}}
         \cup {Num(Years(y) + 2) : y \in {0, 12, 20, 40, 60, 100}}

AgeTables ==
    Tables({[Braund EXCEPT !.Age = a] : a \in AgeSamples}, RawCols, MaxFeatureRows)

\* the rows the feature steps are run on: travelling alone, with one
\* relative, with five relatives and no fare
FeatureRows ==
    {Braund, Cumings,
     [Braund EXCEPT !.SibSp = Num(0)],
     [Braund EXCEPT !.SibSp = Num(3), !.Parch = Num(2), !.Fare = NA]}

\* the column sets the feature steps are run on: the file's columns, the
\* same with a FamilySize column already there, and the same without the
\* source column of one of the steps
FeatureSchemas ==
    {RawCols, Append(RawCols, "FamilySize"),
     Append(SelectSeqNotIn(RawCols, {"SibSp"}), "FamilySize")}
    \cup {SelectSeqNotIn(RawCols, {c}) : c \in {"SibSp", "Parch", "Name", "Fare", "Age"}}

FeatureTables ==
    UNION {Tables(FeatureRows, cols, MaxFeatureRows) : cols \in FeatureSchemas}

\* the tables the harness loads: the file's columns, or all but one of them
HarnessRows == {Braund, Cumings, [Braund EXCEPT !.Age = NA]}

HarnessTables ==
    UNION {Tables(HarnessRows, cols, MaxRows) :
             cols \in {RawCols} \cup {SelectSeqNotIn(RawCols, {c}) : c \in Range(RawCols)}}

----------------------------------------------------------------------------
(* The pipeline calls as actions *)

CanCall == err = "none" /\ pc = "start" /\ Len(ops) < MaxCalls

\* a call of name on the current table with result r
Apply(name, r) ==
    /\ prev' = df
    /\ df' = r.df
    /\ err' = r.err
    /\ ops' = Append(ops, name)
    /\ UNCHANGED harness

PreprocessSimple ==
    /\ CanCall
    /\ Apply("simple", preprocess_data(df, FALSE, <<>>))

PreprocessMice ==
    /\ CanCall
    /\ \E fill \in FillChoices(df, TRUE) :
          Apply("mice", preprocess_data(df, TRUE, fill))

ImputeExcludingTarget ==
    /\ CanCall
    /\ \E fill \in FillChoices(df, FALSE) :
          Apply("impute", impute_missing_values(df, FALSE, fill))

CreateFamilySize == CanCall /\ Apply("family_size", create_family_size(df))

CreateIsAlone == CanCall /\ Apply("is_alone", create_is_alone(df))

CreateTitleFeature == CanCall /\ Apply("title", create_title_feature(df))

CreateFareBins == CanCall /\ Apply("fare_bins", create_fare_bins(df))

CreateAgeBins == CanCall /\ Apply("age_bins", create_age_bins(df))

EngineerAllFeatures == CanCall /\ Apply("engineer_all", engineer_all_features(df))

\* split_features_target(df): the feature matrix X is what the caller goes
\* on with
SplitFeaturesTarget ==
    /\ CanCall
    /\ prev' = df
    /\ df' = split_features_target(df, "Survived").df
    /\ err' = split_features_target(df, "Survived").err
    /\ ops' = Append(ops, "split")
    /\ pc' = IF err' = "none" THEN "assembled" ELSE "aborted"
    /\ UNCHANGED <<X, attempted, models, saved, evaluated>>

\* train_all_models, lines 198-207: prepare_data() inside the try.  Only
\* FileNotFoundError (load_data) is caught, and None returned; any other
\* exception leaves train_all_models.
PrepareData ==
    /\ pc = "start" /\ err = "none" /\ ops = <<>>
    /\ prev' = df
    /\ ops' = Append(ops, "prepare_data")
    /\ UNCHANGED <<attempted, models, saved, evaluated>>
    /\ \/ /\ pc' = "returned_none"
          /\ UNCHANGED <<df, err, X>>
       \/ \E fill \in FillChoices(df, TRUE), test \in TestChoices(df) :
            LET r == prepare_data(df, fill, test)
            IN IF r.err = "none"
               THEN /\ df' = r.df
                    /\ X' = r.X
                    /\ pc' = "train_lr"
                    /\ UNCHANGED err
               ELSE /\ err' = r.err
                    /\ pc' = "aborted"
                    /\ UNCHANGED <<df, X>>

\* lines 213-216, 219-222 and 225-228: fit, then models[name] = model,
\* save_model and evaluate_model.  A fit that raises is not caught: the
\* exception leaves train_all_models.
Train(at, name, next) ==
    /\ pc = at
    /\ attempted' = attempted \cup {name}
    /\ UNCHANGED <<df, prev, ops, X>>
    /\ \/ /\ models' = models \cup {name}
          /\ saved' = saved \cup {name}
          /\ evaluated' = evaluated \cup {name}
          /\ pc' = next
          /\ UNCHANGED err
       \/ /\ err' = "ValueError"
          /\ pc' = "aborted"
          /\ UNCHANGED <<models, saved, evaluated>>

TrainLogisticRegression == Train("train_lr", "logistic_regression", "train_rf")

TrainRandomForest == Train("train_rf", "random_forest", "train_xgb")

TrainXGBoost == Train("train_xgb", "xgboost", "returned")

InitWith(t) ==
    /\ df = t
    /\ prev = t
    /\ ops = <<>>
    /\ err = "none"
    /\ pc = "start"
    /\ X = NoX
    /\ attempted = {}
    /\ models = {}
    /\ saved = {}
    /\ evaluated = {}

\* the imputation, on tables with missing values
InitImpute == \E t \in ImputeTables : InitWith(t)

NextImpute == PreprocessSimple \/ PreprocessMice \/ ImputeExcludingTarget

SpecImpute == InitImpute /\ [][NextImpute]_vars

\* the title step, on tables of names
InitTitle == \E t \in TitleTables : InitWith(t)

NextTitle == CreateTitleFeature \/ EngineerAllFeatures

SpecTitle == InitTitle /\ [][NextTitle]_vars

\* the age binning, on tables of ages
InitAgeBins == \E t \in AgeTables : InitWith(t)

NextAgeBins == CreateAgeBins \/ EngineerAllFeatures

SpecAgeBins == InitAgeBins /\ [][NextAgeBins]_vars

\* the feature steps, on tables with and without their source columns
InitFeatures == \E t \in FeatureTables : InitWith(t)

NextFeatures ==
    \/ CreateFamilySize
    \/ CreateIsAlone
    \/ CreateTitleFeature
    \/ CreateFareBins
    \/ CreateAgeBins
    \/ EngineerAllFeatures

SpecFeatures == InitFeatures /\ [][NextFeatures]_vars

\* the assembler and the training harness
InitTrain == \E t \in HarnessTables : InitWith(t)

NextTrain ==
    \/ SplitFeaturesTarget
    \/ PrepareData
    \/ TrainLogisticRegression
    \/ TrainRandomForest
    \/ TrainXGBoost

SpecTrain == InitTrain /\ [][NextTrain]_vars

----------------------------------------------------------------------------
(* The claims *)

LastOp == IF ops = <<>> THEN "" ELSE ops[Len(ops)]

\* the most recent call was name, and it returned
Returned(name) == LastOp = name /\ err = "none"

NoMissing(t) ==
    \A i \in 1..NRows(t) : \A c \in Range(t.cols) : ~isnull(t.rows[i][c])

\* C1: after preprocess_data with the simple strategy returns on an input
\* table, no row has a missing Age, Fare or Embarked.  The code breaks it:
\* the median of a column that is missing in every row is NaN and fills
\* nothing, and a port outside the lookup table is encoded as NaN.
C1_NoMissingAfterSimple ==
    (ops = <<"simple">> /\ err = "none") =>
        \A c \in {"Age", "Fare", "Embarked"} : ~AnyNull(df, c)

\* the last two calls were both the simple strategy, and both returned
SimpleTwice ==
    /\ Len(ops) >= 2
    /\ ops[Len(ops)] = "simple"
    /\ ops[Len(ops) - 1] = "simple"
    /\ err = "none"

\* C2 as stated: applying the simple strategy to its own output gives a
\* table equal to that output.
C2_SimpleIdempotent == SimpleTwice => df = prev

\* C2 as amended: the second application returns the columns of the first
\* output with Age, Fare and every column other than Sex and Embarked
\* unchanged; Sex and Embarked, already encoded, are missing in every row.
C2_ImputedColumnsIdempotent ==
    SimpleTwice =>
        /\ df.cols = prev.cols
        /\ \A i \in 1..NRows(df) : \A c \in Range(df.cols) :
              IF c \in {"Sex", "Embarked"} THEN isnull(df.rows[i][c])
              ELSE df.rows[i][c] = prev.rows[i][c]

\* a second application on a table whose missing age was filled with the
\* median of 22 and 38
C2_Witness ==
    /\ ops = <<"simple", "simple">>
    /\ err = "none"
    /\ \E i \in 1..NRows(df) : df.rows[i]["Age"] = Num(Years(30))
    /\ \E i \in 1..NRows(df) : df.rows[i]["Age"] = Num(Years(22))

\* the first call on an input table without a missing value returned
FirstOnComplete(name) == ops = <<name>> /\ err = "none" /\ NoMissing(prev)

\* C3 as stated: on a table without a missing value the simple and the
\* multivariate strategy return the input table.
C3_NoMissingNoOp ==
    \A name \in {"simple", "mice", "impute"} : FirstOnComplete(name) => df = prev

SexCode(c) ==
    IF c = Str("male") THEN Num(0) ELSE IF c = Str("female") THEN Num(1) ELSE NA

PortCode(c) ==
    IF c = Str("S") THEN Num(0) ELSE IF c = Str("C") THEN Num(1)
    ELSE IF c = Str("Q") THEN Num(2) ELSE NA

\* the columns left of cols after the columns of S are taken out and the
\* columns of last, where present, are moved to the end
Moved(cols, S, last) ==
    SelectSeqNotIn(cols, S \cup Range(last)) \o SelectSeqIn(last, Range(cols) \ S)

\* C3 as amended: on a table without a missing value both strategies change
\* no value they did not encode.  The simple strategy returns the input
\* without Cabin, Sex and Embarked replaced by their codes (a port outside
\* the lookup table by NaN).  The multivariate strategy returns the input
\* without Cabin, Ticket and PassengerId, with Name moved to the end (and
\* Survived before it, when it was left out of a run of the imputer), Sex
\* and Embarked replaced by their codes (a port outside the lookup table by
\* an imputed number).  Every other cell is the input's.
C3_NoMissingOnlyEncodes ==
    /\ FirstOnComplete("simple") =>
          /\ df.cols = Moved(prev.cols, {"Cabin"}, <<>>)
          /\ \A i \in 1..NRows(df) : \A c \in Range(df.cols) :
                df.rows[i][c] =
                    IF c = "Sex" THEN SexCode(prev.rows[i][c])
                    ELSE IF c = "Embarked" THEN PortCode(prev.rows[i][c])
                    ELSE prev.rows[i][c]
    /\ \A name \in {"mice", "impute"} : FirstOnComplete(name) =>
          /\ NRows(df) = NRows(prev)
          /\ df.cols = Moved(prev.cols, {"Cabin", "Ticket", "PassengerId"},
                IF name = "impute" /\ \E i \in 1..NRows(prev) :
                        isnull(PortCode(prev.rows[i]["Embarked"]))
                THEN <<"Survived", "Name">> ELSE <<"Name">>)
          /\ \A i \in 1..NRows(df) : \A c \in Range(df.cols) :
                IF c = "Sex" THEN df.rows[i][c] = SexCode(prev.rows[i][c])
                ELSE IF c = "Embarked"
                THEN IF isnull(PortCode(prev.rows[i][c]))
                     THEN df.rows[i][c].tag = "num"
                     ELSE df.rows[i][c] = PortCode(prev.rows[i][c])
                ELSE df.rows[i][c] = prev.rows[i][c]

\* the multivariate strategy has returned on a table of a man and a woman
\* without a missing value
C3_Witness ==
    /\ FirstOnComplete("mice")
    /\ \E i \in 1..NRows(prev) : prev.rows[i]["Sex"] = Str("male")
    /\ \E i \in 1..NRows(prev) : prev.rows[i]["Sex"] = Str("female")

\* the code the lookup table of the claim gives a title
TitleCode(x) ==
    IF x = Mr THEN 0
    ELSE IF x \in {Miss, Mlle, Ms} THEN 1
    ELSE IF x \in {Mrs, Countess, Lady, Dona, Mme} THEN 2
    ELSE IF x = Master THEN 3
    ELSE IF x \in {Dr, Rev, Col, Major, Jonkheer, Don, Capt, Sir} THEN 4
    ELSE 0

\* the name has no letter followed by a period
NoWordBeforePeriod(s) ==
    ~\E i \in 1..(Len(s) - 1) : s[i] \in Letters /\ s[i + 1] = "."

\* C4: after create_title_feature every row has a Title in {0,...,4}: 0 for
\* a missing name, for a name without a word followed by a period and for
\* an extracted title that is not in the lookup table, and its table code
\* for a title of the lookup table; a name "Doe, <title>. J" has the code
\* of <title>.
C4_TitleTotal ==
    (Returned("title") /\ HasCol(prev, "Name")) =>
        \A i \in 1..NRows(df) :
            LET name == prev.rows[i]["Name"]
                title == df.rows[i]["Title"]
            IN /\ title \in {Num(k) : k \in 0..4}
               /\ isnull(name) => title = Num(0)
               /\ ~isnull(name) =>
                    /\ NoWordBeforePeriod(name.txt) => title = Num(0)
                    /\ isnull(str_extract(name)) => title = Num(0)
                    /\ ~isnull(str_extract(name)) =>
                          title = Num(TitleCode(str_extract(name).txt))
                    /\ \A t \in {Mr, Miss, Mrs, Master, Dr, Rev, Col, Major,
                                 Mlle, Countess, Ms, Lady, Jonkheer, Don,
                                 Dona, Mme, Capt, Sir} :
                          name.txt = NameWith(t) => title = Num(TitleCode(t))

\* the title step has returned on a missing name and on a rare title
C4_Witness ==
    /\ Returned("title")
    /\ \E i \in 1..NRows(df) :
          isnull(prev.rows[i]["Name"]) /\ df.rows[i]["Title"] = Num(0)
    /\ \E i \in 1..NRows(df) :
          prev.rows[i]["Name"] = Text(NameWith(Jonkheer))
          /\ df.rows[i]["Title"] = Num(4)

\* the ages create_age_bins has just binned, each with the bin it got
BinnedAges ==
    IF Returned("age_bins") /\ HasCol(prev, "Age")
    THEN {<<prev.rows[i]["Age"].num, df.rows[i]["AgeBin"]>> :
            i \in {j \in 1..NRows(df) : ~isnull(prev.rows[j]["Age"])}}
    ELSE {}

LeftInclusive(a, bin) ==
    (0 <= a /\ a <= Years(100)) =>
        bin = IF a < Years(12) THEN Num(0)
              ELSE IF a < Years(20) THEN Num(1)
              ELSE IF a < Years(40) THEN Num(2)
              ELSE IF a < Years(60) THEN Num(3)
              ELSE Num(4)

RightInclusive(a, bin) ==
    (0 <= a /\ a <= Years(100)) =>
        bin = IF a = 0 THEN NA
              ELSE IF a <= Years(12) THEN Num(0)
              ELSE IF a <= Years(20) THEN Num(1)
              ELSE IF a <= Years(40) THEN Num(2)
              ELSE IF a <= Years(60) THEN Num(3)
              ELSE Num(4)

FirstBoundary(a, bin) ==
    /\ a = Years(12) => bin = Num(0)
    /\ (Years(12) < a /\ a <= Years(20)) => bin = Num(1)

\* C6: age 12 is put in bin 0, and every age above 12 and at most 20 in
\* bin 1.
C6_FirstBoundary == \A p \in BinnedAges : FirstBoundary(p[1], p[2])

\* the binning has returned on an age of 12 and on an age of 12.5
C6_Witness ==
    /\ Returned("age_bins")
    /\ \E i \in 1..NRows(df) :
          prev.rows[i]["Age"] = Num(Years(12)) /\ df.rows[i]["AgeBin"] = Num(0)
    /\ \E i \in 1..NRows(df) :
          prev.rows[i]["Age"] = Num(Years(12) + 2) /\ df.rows[i]["AgeBin"] = Num(1)

\* C7: after engineer_all_features every row has FamilySize = SibSp + Parch
\* + 1, and IsAlone = 1 if FamilySize = 1 and 0 otherwise, also when the
\* table came with a FamilySize column.
C7_FamilySizeAndIsAlone ==
    Returned("engineer_all") =>
        \A i \in 1..NRows(df) :
            /\ df.rows[i]["FamilySize"].tag = "num"
            /\ df.rows[i]["FamilySize"].num =
                  prev.rows[i]["SibSp"].num + prev.rows[i]["Parch"].num + 1
            /\ df.rows[i]["IsAlone"] =
                  IF df.rows[i]["FamilySize"].num = 1 THEN Num(1) ELSE Num(0)

\* engineer_all_features has returned on a table that came with a stale
\* FamilySize, with a passenger alone and one with relatives
C7_Witness ==
    /\ Returned("engineer_all")
    /\ HasCol(prev, "FamilySize")
    /\ \E i \in 1..NRows(df) :
          prev.rows[i]["FamilySize"] # df.rows[i]["FamilySize"]
          /\ df.rows[i]["IsAlone"] = Num(0)
    /\ \E i \in 1..NRows(df) : df.rows[i]["IsAlone"] = Num(1)

\* the source columns of each feature step
Sources ==
    ("family_size" :> {"SibSp", "Parch"}) @@ ("is_alone" :> {"SibSp", "Parch"})
    @@ ("title" :> {"Name"}) @@ ("fare_bins" :> {"Fare"})
    @@ ("age_bins" :> {"Age"})

\* C8: each of the five feature steps returns its input, and raises
\* nothing, when a source column of the step is absent; engineer_all_features
\* raises nothing.  The code breaks it: create_family_size (and with it
\* create_is_alone and engineer_all_features) raises KeyError without SibSp
\* or Parch.
C8_NoOpWithoutSource ==
    /\ \A step \in DOMAIN Sources :
          (LastOp = step /\ \E c \in Sources[step] : ~HasCol(prev, c)) =>
              (err = "none" /\ df = prev)
    /\ LastOp = "engineer_all" => err = "none"

Needed == Range(feature_columns) \cup {"Survived"}

\* C9 as stated: split_features_target, and the assembly of prepare_data,
\* fail when a feature column (Pclass, Sex, Age, SibSp, Parch, Fare,
\* Embarked) or the target is absent from the table.
C9_AssemblyFailsOnAbsentColumn ==
    /\ (LastOp = "split" /\ \E c \in Needed : ~HasCol(prev, c)) => err = "KeyError"
    /\ (LastOp = "prepare_data" /\ pc # "returned_none"
            /\ \E c \in Needed : ~HasCol(prev, c)) => err # "none"

\* the columns the engineered table has, given the columns of the input
Engineered(cols) ==
    cols \cup {"FamilySize", "IsAlone"}
         \cup (IF "Name" \in cols THEN {"Title"} ELSE {})
         \cup (IF "Fare" \in cols THEN {"FareBin"} ELSE {})
         \cup (IF "Age" \in cols THEN {"AgeBin"} ELSE {})

\* C9 as amended: split_features_target fails with KeyError when a feature
\* column or the target is absent, and otherwise returns the seven feature
\* columns; prepare_data fails when Survived, Sex, Embarked, SibSp or Parch
\* is absent, and otherwise its feature matrix holds the feature columns
\* that exist: an absent Pclass, Age or Fare is left out of it.
C9_SplitFailsHarnessSelects ==
    /\ (LastOp = "split" /\ \E c \in Needed : ~HasCol(prev, c)) => err = "KeyError"
    /\ Returned("split") => df.cols = feature_columns
    /\ (LastOp = "prepare_data" /\ pc # "returned_none"
            /\ \E c \in {"Survived", "Sex", "Embarked", "SibSp", "Parch"} :
                  ~HasCol(prev, c)) => err # "none"
    /\ (LastOp = "prepare_data" /\ pc \notin {"returned_none", "aborted"}) =>
          /\ \A j \in 1..Len(X.cols) : X.cols[j] \in Engineered(Range(prev.cols))
          /\ \A c \in Engineered(Range(prev.cols)) \cap Range(harness_feature_columns) :
                c \in Range(X.cols)
          /\ \A c \in {"Pclass", "Age", "Fare"} :
                ~HasCol(prev, c) => c \notin Range(X.cols)

\* prepare_data has returned a feature matrix for a table without Fare
C9_Witness ==
    /\ LastOp = "prepare_data"
    /\ pc = "train_lr"
    /\ ~HasCol(prev, "Fare")
    /\ X.train # {}

\* C10: a fit that raises is caught and the other models are still trained:
\* when train_all_models ends after it began to train, each of the three
\* models has been attempted.  The code breaks it: a fit that raises ends
\* train_all_models.
C10_FitFailureIsolated ==
    (pc \in {"returned", "aborted"} /\ attempted # {}) =>
        attempted = {"logistic_regression", "random_forest", "xgboost"}

====
